---- MODULE Spec2Model ----
(***************************************************************************)
(* Model of the Submission Judging Engine (backend/src/services/aiService)  *)
(* : AIService.verifyChallenge / validateAIResponse, determineWinners /     *)
(* calculateRewardDistribution and detectFraud with its four heuristics.    *)
(*                                                                          *)
(* JavaScript values are records [t |-> type, v |-> Int]:                   *)
(*   undefined, boolean (v = 1 true, 0 false), number, nan (the number      *)
(*   NaN), string (v = 0 the empty string, v > 0 a non-numeric text).       *)
(* confidence is a float in the source; it is carried in hundredths, so     *)
(* 1.5 is Num(150) and the bound 1 of the validator is ConfidenceOne.       *)
(* Times are milliseconds; an ISO-8601 timestamp is carried as the          *)
(* millisecond count that new Date(iso) yields.                             *)
(***************************************************************************)
EXTENDS Integers, Sequences, FiniteSets, TLC

VARIABLES
  now,              \* the wall clock read by new Date()
  judge,            \* outcome of the remote judge call of verifyChallenge
  verifyResult,     \* what verifyChallenge returned or threw
  validateResult,   \* what validateAIResponse returned or threw
  submissions,      \* the list passed to determineWinners
  maxWinners,       \* the maxWinners argument
  winnersResult,    \* result of the latest determineWinners call
  firstCall,        \* input and result of the first determineWinners call
  calls,            \* number of determineWinners calls made
  fraudSubmission,      \* the submission passed to detectFraud
  previousSubmissions,  \* the previousSubmissions argument
  fraudResult,          \* what detectFraud returned
  storage,          \* content-addressed storage: the objects uploaded so far
  chain,            \* the on-chain record of the submission
  pipe,             \* processAIVerification started by POST /submit
  manual            \* POST /:submissionId/verify requests

vars == <<now, judge, verifyResult, validateResult,
          submissions, maxWinners, winnersResult, firstCall, calls,
          fraudSubmission, previousSubmissions, fraudResult,
          storage, chain, pipe, manual>>

verifyVars == <<judge, verifyResult, validateResult>>
winnerVars == <<submissions, maxWinners, winnersResult, firstCall, calls>>
fraudVars == <<fraudSubmission, previousSubmissions, fraudResult>>
pipelineVars == <<storage, chain, pipe, manual>>

----------------------------------------------------------------------------
(* Bounds *)

MaxNow == 1
MaxSubs == 3          \* longest list of well-typed submissions
MaxLooseSubs == 2     \* longest list of submissions with untyped verdicts
MaxWinnersArg == 4    \* largest maxWinners argument
MaxCalls == 2         \* determineWinners calls on one input
MaxPriors == 3        \* longest previousSubmissions list
MaxManual == 1        \* manual verify requests for the submission
MaxManySubs == 4      \* longest submission list given with maxWinners above 3

----------------------------------------------------------------------------
(* JavaScript values *)

Undef == [t |-> "undefined", v |-> 0]
NaN == [t |-> "nan", v |-> 0]
Num(n) == [t |-> "number", v |-> n]
Bool(b) == [t |-> "boolean", v |-> IF b THEN 1 ELSE 0]
Str(i) == [t |-> "string", v |-> i]

\* ToBoolean, as applied by &&, ||, ?: and filter callbacks
Truthy(x) ==
  CASE x.t = "undefined" -> FALSE
    [] x.t = "nan" -> FALSE
    [] x.t = "boolean" -> x.v = 1
    [] x.t = "number" -> x.v # 0
    [] x.t = "string" -> x.v # 0

\* ToNumber, as applied by Math.min / Math.max to their arguments
ToNumber(x) ==
  CASE x.t = "undefined" -> NaN
    [] x.t = "nan" -> NaN
    [] x.t = "boolean" -> Num(x.v)
    [] x.t = "number" -> x
    [] x.t = "string" -> IF x.v = 0 THEN Num(0) ELSE NaN

MathMin(a, b) ==
  LET x == ToNumber(a)
      y == ToNumber(b)
  IN IF x.t = "nan" \/ y.t = "nan" THEN NaN
     ELSE IF x.v <= y.v THEN x ELSE y

MathMax(a, b) ==
  LET x == ToNumber(a)
      y == ToNumber(b)
  IN IF x.t = "nan" \/ y.t = "nan" THEN NaN
     ELSE IF x.v >= y.v THEN x ELSE y

Min2(a, b) == IF a <= b THEN a ELSE b

----------------------------------------------------------------------------
(* VerificationEngine: verifyChallenge and validateAIResponse *)

ConfidenceOne == 100

NoResponse == [isValid |-> Undef, score |-> Undef,
               reasoning |-> Undef, confidence |-> Undef]

\* The parsed judge responses considered: every field may be missing
\* (undefined), mistyped or out of range.
JudgeResponses ==
  [isValid : {Undef, Bool(TRUE), Bool(FALSE), Str(1)},
   score : {Undef, Num(-5), Num(0), Num(50), Num(100), Num(150), Str(1)},
   reasoning : {Undef, Str(1)},
   confidence : {Undef, Num(0), Num(50), Num(100), Num(150), Str(1)}]

\* What the remote call and JSON.parse can produce
JudgeOutcomes ==
  {[kind |-> "call_failed", obj |-> NoResponse],
   [kind |-> "unparseable", obj |-> NoResponse]}
  \cup {[kind |-> "object", obj |-> r] : r \in JudgeResponses}

NoVerdict == [isValid |-> Undef, score |-> Undef, reasoning |-> Undef,
              confidence |-> Undef, timestamp |-> 0]

NotCalled == [status |-> "none", kind |-> "undefined", message |-> <<>>,
              verdict |-> NoVerdict]

\* error.message of what the try block threw
CauseMessage(j) ==
  IF j.kind = "unparseable" THEN "Unexpected token in JSON"
  ELSE "Request to the judge failed"

ClampScoreUnbounded(s) == MathMax(Num(0), s)

ClampScore(s) == MathMax(Num(0), MathMin(Num(100), s))

\* verifyChallenge: the awaited create() or JSON.parse may throw, every throw
\* is rethrown as Error('AI verification failed: ...'); otherwise the parsed
\* fields are copied and only the score is clamped.
\* The thrown value is a plain Error: it has a message and no kind property.
verifyChallenge(j, clock) ==
  IF j.kind # "object"
    THEN [status |-> "error", kind |-> "undefined",
          message |-> <<"AI verification failed: ", CauseMessage(j)>>,
          verdict |-> NoVerdict]
    ELSE [status |-> "ok", kind |-> "undefined", message |-> <<>>,
          verdict |-> [isValid |-> j.obj.isValid,
                       score |-> ClampScore(j.obj.score),
                       reasoning |-> j.obj.reasoning,
                       confidence |-> j.obj.confidence,
                       timestamp |-> clock]]

\* validateAIResponse: "ok" when it returns true, otherwise the thrown message
validateAIResponse(r) ==
  IF \E f \in {"isValid", "score", "reasoning", "confidence"} : r[f] = Undef
    THEN "AI response missing required fields"
  ELSE IF r.isValid.t # "boolean"
    THEN "isValid must be a boolean"
  ELSE IF r.score.t \notin {"number", "nan"} \/ r.score.v < 0 \/ r.score.v > 100
    THEN "score must be a number between 0 and 100"
  ELSE IF r.confidence.t \notin {"number", "nan"}
          \/ r.confidence.v < 0 \/ r.confidence.v > ConfidenceOne
    THEN "confidence must be a number between 0 and 1"
  ELSE "ok"

----------------------------------------------------------------------------
(* WinnerSelector: determineWinners and calculateRewardDistribution *)

NoVerification == [present |-> FALSE, isValid |-> Undef, score |-> 0]

SeqsUpTo(S, n) == UNION {[1..k -> S] : k \in 0..n}

\* Submissions annotated with a Verdict of the data model (boolean isValid).
TypedShapes ==
  [verification : [present : {TRUE}, isValid : {Bool(TRUE), Bool(FALSE)},
                   score : {80, 90}],
   timestamp : {0, 1}]

\* Submissions whose verification is absent, lacks isValid or carries a
\* non-boolean isValid.
LooseShapes ==
  [verification : {NoVerification}
                  \cup [present : {TRUE},
                        isValid : {Undef, Bool(TRUE), Bool(FALSE), Str(1)},
                        score : {80}],
   timestamp : {0}]

\* The on-chain submissionId is the position at which the record was drawn.
WithIds(shapes) ==
  [i \in DOMAIN shapes |->
     [submissionId |-> i, submitter |-> i,
      timestamp |-> shapes[i].timestamp,
      verification |-> shapes[i].verification]]

WinnerInputs ==
  {WithIds(q) : q \in SeqsUpTo(TypedShapes, MaxSubs)}
  \cup {WithIds(q) : q \in SeqsUpTo(LooseShapes, MaxLooseSubs)}

\* Lists long enough for more than 3 winners: valid submissions of either
\* score and timestamp, and one invalid shape.
ManyShapes ==
  [verification : [present : {TRUE}, isValid : {Bool(TRUE)}, score : {80, 90}],
   timestamp : {0, 1}]
  \cup [verification : [present : {TRUE}, isValid : {Bool(FALSE)}, score : {80}],
        timestamp : {0}]

FallbackRows == 3

ManyWinnerInputs ==
  {WithIds(q) : q \in UNION {[1..k -> ManyShapes] :
                               k \in (FallbackRows + 1)..MaxManySubs}}

\* maxWinners as the route validates it: an integer up to 10
RouteMaxWinners == 10

PassesFilterAnyVerification(sub) == sub.verification.present

\* The filter callback: sub.verification && sub.verification.isValid
PassesFilter(sub) ==
  sub.verification.present /\ Truthy(sub.verification.isValid)

RECURSIVE ArrayFilter(_, _)
ArrayFilter(s, i) ==
  IF i > Len(s) THEN <<>>
  ELSE (IF PassesFilter(s[i]) THEN <<s[i]>> ELSE <<>>) \o ArrayFilter(s, i + 1)

CompareIgnoresTimestamp(a, b) == b.verification.score - a.verification.score

\* The sort callback: score descending, then timestamp ascending
Compare(a, b) ==
  IF b.verification.score # a.verification.score
    THEN b.verification.score - a.verification.score
    ELSE a.timestamp - b.timestamp

\* Array.prototype.sort is stable: x goes behind the last element that does
\* not have to follow it.
InsertSorted(s, x) ==
  LET keep == {j \in 1..Len(s) : Compare(s[j], x) <= 0}
      pos == IF keep = {} THEN 0 ELSE CHOOSE j \in keep : \A k \in keep : k <= j
  IN SubSeq(s, 1, pos) \o <<x>> \o SubSeq(s, pos + 1, Len(s))

RECURSIVE ArraySort(_, _)
ArraySort(s, n) ==
  IF n = 0 THEN <<>> ELSE InsertSorted(ArraySort(s, n - 1), s[n])

Slice0Inclusive(s, end) == SubSeq(s, 1, Min2(end + 1, Len(s)))

\* Array.prototype.slice(0, end); a negative end counts from the back
Slice0(s, end) ==
  LET e == IF end < 0 THEN (IF Len(s) + end < 0 THEN 0 ELSE Len(s) + end)
           ELSE Min2(end, Len(s))
  IN SubSeq(s, 1, e)

Distributions == [n \in 1..3 |-> CASE n = 1 -> <<100>>
                                   [] n = 2 -> <<70, 30>>
                                   [] n = 3 -> <<50, 30, 20>>]

calculateRewardDistributionByMaxWinners(winnerLen, k) ==
  IF k \in DOMAIN Distributions THEN Distributions[k] ELSE Distributions[3]

\* calculateRewardDistribution falling back to the 1-entry row
calculateRewardDistributionFirstRow(winnerLen, k) ==
  LET winnerCount == Min2(winnerLen, k)
  IN IF winnerCount \in DOMAIN Distributions
       THEN Distributions[winnerCount] ELSE Distributions[1]

calculateRewardDistribution(winnerLen, k) ==
  LET winnerCount == Min2(winnerLen, k)
  IN IF winnerCount \in DOMAIN Distributions
       THEN Distributions[winnerCount] ELSE Distributions[3]

\* rewardDistribution[index], undefined past the end of the table row
RewardAt(dist, index) ==
  IF index + 1 \in DOMAIN dist THEN Num(dist[index + 1]) ELSE Undef

NoResult == [winners |-> <<>>, totalSubmissions |-> 0,
             validSubmissions |-> 0, timestamp |-> 0]

\* determineWinners whose filter also drops submissions dated after the clock
determineWinnersUpToNow(subs, k, clock) ==
  LET filtered == ArrayFilter(SelectSeq(subs, LAMBDA x : x.timestamp <= clock), 1)
      validSubmissions == ArraySort(filtered, Len(filtered))
      winners == Slice0(validSubmissions, k)
      rewardDistribution == calculateRewardDistribution(Len(winners), k)
  IN [winners |-> [i \in DOMAIN winners |->
                     [submissionId |-> winners[i].submissionId,
                      submitter |-> winners[i].submitter,
                      score |-> winners[i].verification.score,
                      rank |-> i,
                      rewardPercentage |-> RewardAt(rewardDistribution, i - 1)]],
      totalSubmissions |-> Len(subs),
      validSubmissions |-> Len(validSubmissions),
      timestamp |-> clock]

determineWinners(subs, k, clock) ==
  LET filtered == ArrayFilter(subs, 1)
      validSubmissions == ArraySort(filtered, Len(filtered))
      winners == Slice0(validSubmissions, k)
      rewardDistribution == calculateRewardDistribution(Len(winners), k)
  IN [winners |-> [i \in DOMAIN winners |->
                     [submissionId |-> winners[i].submissionId,
                      submitter |-> winners[i].submitter,
                      score |-> winners[i].verification.score,
                      rank |-> i,
                      rewardPercentage |-> RewardAt(rewardDistribution, i - 1)]],
      totalSubmissions |-> Len(subs),
      validSubmissions |-> Len(validSubmissions),
      timestamp |-> clock]

SubmissionsSortedInPlace(subs) == ArraySort(subs, Len(subs))

\* The caller's array after the call: filter builds a new array and sort
\* works in place on that new array, so the argument keeps its elements and
\* their order.
SubmissionsAfterCall(subs) == subs

NoCall == [input |-> <<>>, maxWinners |-> 0, result |-> NoResult]

----------------------------------------------------------------------------
(* FraudDetector: detectFraud and its four checks *)

FiveMinutes == 5 * 60 * 1000

NoMetadata == [present |-> FALSE, device |-> Undef, timestamp |-> Undef,
               location |-> Undef]

\* A metadata field: missing, an empty string, or a non-empty value
MetadataFieldValues == {Undef, Str(0), Str(1)}

\* metadata: absent, complete, or with one field missing or empty
MetadataShapes ==
  {NoMetadata}
  \cup {m \in [present : {TRUE}, device : MetadataFieldValues,
               timestamp : MetadataFieldValues,
               location : MetadataFieldValues] :
          Cardinality({f \in {"device", "timestamp", "location"} :
                         m[f] # Str(1)}) <= 1}

NoScore == [present |-> FALSE, score |-> 0]

\* submission.timestamp: missing, or an ISO date given by its milliseconds
NoTimestamp == [valid |-> FALSE, ms |-> 0]

IsoDate(ms) == [valid |-> TRUE, ms |-> ms]

\* A null / undefined submission argument
NullSubmission == [isNull |-> TRUE, proofHash |-> Undef,
                   timestamp |-> NoTimestamp, metadata |-> NoMetadata,
                   verification |-> NoScore]

FraudSubmissions ==
  {NullSubmission}
  \cup [isNull : {FALSE},
        proofHash : {Undef, Str(1), Str(2)},
        timestamp : {NoTimestamp}
                    \cup {IsoDate(t) : t \in {0 - 2 * FiveMinutes, 0,
                                              FiveMinutes, FiveMinutes + 1}},
        metadata : MetadataShapes,
        verification : {NoScore} \cup [present : {TRUE}, score : {75, 90, 100}]]

NullEntry == [isNull |-> TRUE, proofHash |-> Undef, verification |-> NoScore]

\* An entry of previousSubmissions: null, or a record that may lack a
\* proofHash and may lack a verification.
PriorEntries ==
  {NullEntry}
  \cup [isNull : {FALSE}, proofHash : {Undef, Str(1)},
        verification : {NoScore} \cup [present : {TRUE}, score : {40, 60}]]

NoPriorList == [defined |-> FALSE, items |-> <<>>]

PriorLists ==
  {NoPriorList}
  \cup {[defined |-> TRUE, items |-> q] : q \in SeqsUpTo(PriorEntries, MaxPriors)}

Check(flag, yes, no) ==
  [threw |-> FALSE, suspicious |-> flag, reason |-> IF flag THEN yes ELSE no]

Threw == [threw |-> TRUE, suspicious |-> FALSE, reason |-> "TypeError"]

\* Array.prototype.find visits the entries in order and stops at the first
\* match; reading prev.proofHash of a null entry throws.
checkDuplicateContent(sub, prev) ==
  IF sub.isNull \/ ~prev.defined THEN Threw
  ELSE LET matches == {i \in DOMAIN prev.items :
                         /\ ~prev.items[i].isNull
                         /\ prev.items[i].proofHash = sub.proofHash}
           nulls == {i \in DOMAIN prev.items : prev.items[i].isNull}
       IN IF \E n \in nulls : \A m \in matches : n < m
            THEN Threw
            ELSE Check(matches # {}, "Duplicate content hash detected",
                       "Content appears unique")

\* checkUnusualTiming flagging any distance of more than 5 minutes
checkUnusualTimingEitherWay(sub, clock) ==
  IF sub.isNull THEN Threw
  ELSE IF ~sub.timestamp.valid
    THEN Check(FALSE, "", "Timing appears normal")
  ELSE LET submissionTime == sub.timestamp.ms
           timeDiff == IF clock >= submissionTime THEN clock - submissionTime
                       ELSE submissionTime - clock
       IN Check(timeDiff > FiveMinutes,
                "Submission timestamp appears manipulated",
                "Timing appears normal")

\* new Date(undefined) is an invalid date: every comparison with it is false
checkUnusualTiming(sub, clock) ==
  IF sub.isNull THEN Threw
  ELSE IF ~sub.timestamp.valid
    THEN Check(FALSE, "", "Timing appears normal")
  ELSE LET submissionTime == sub.timestamp.ms
           timeDiff == IF clock >= submissionTime THEN clock - submissionTime
                       ELSE submissionTime - clock
       IN Check(timeDiff > FiveMinutes /\ submissionTime > clock,
                "Submission timestamp appears manipulated",
                "Timing appears normal")

\* checkMetadataConsistency asking for device and timestamp only
checkMetadataConsistencyTwoFields(sub) ==
  IF sub.isNull THEN Threw
  ELSE LET metadata == IF sub.metadata.present THEN sub.metadata
                       ELSE NoMetadata
           hasRequiredFields ==
             /\ Truthy(metadata.device)
             /\ Truthy(metadata.timestamp)
       IN Check(~hasRequiredFields, "Missing critical metadata",
                "Metadata appears complete")

\* checkMetadataConsistency reading the fields of submission.metadata with
\* no default for a missing metadata
checkMetadataConsistencyNoDefault(sub) ==
  IF sub.isNull \/ ~sub.metadata.present THEN Threw
  ELSE Check(~(/\ Truthy(sub.metadata.device)
               /\ Truthy(sub.metadata.timestamp)
               /\ Truthy(sub.metadata.location)),
             "Missing critical metadata", "Metadata appears complete")

checkMetadataConsistency(sub) ==
  IF sub.isNull THEN Threw
  ELSE LET metadata == IF sub.metadata.present THEN sub.metadata
                       ELSE NoMetadata
           hasRequiredFields ==
             /\ Truthy(metadata.device)
             /\ Truthy(metadata.timestamp)
             /\ Truthy(metadata.location)
       IN Check(~hasRequiredFields, "Missing critical metadata",
                "Metadata appears complete")

RECURSIVE SumScores(_, _)
SumScores(items, i) ==
  IF i > Len(items) THEN 0
  ELSE items[i].verification.score + SumScores(items, i + 1)

\* checkScoreAnomalies flagging a score of exactly avgScore + 30
checkScoreAnomaliesInclusive(sub, prev) ==
  IF ~prev.defined THEN Threw
  ELSE IF Len(prev.items) < 3
    THEN Check(FALSE, "", "Insufficient data for comparison")
  ELSE IF sub.isNull \/ \E i \in DOMAIN prev.items : prev.items[i].isNull
    THEN Threw
  ELSE LET scored == SelectSeq(prev.items, LAMBDA x : x.verification.present)
           total == SumScores(scored, 1)
           submissionScore == IF sub.verification.present
                                THEN sub.verification.score ELSE 0
       IN Check(/\ Len(scored) > 0
                /\ submissionScore * Len(scored) >= total + 30 * Len(scored)
                /\ submissionScore > 80,
                "Score significantly higher than average",
                "Score within normal range")

\* avgScore is sum / length; submissionScore > avgScore + 30 is compared
\* after multiplying through by the length, and 0 / 0 is NaN, which no
\* number exceeds.
checkScoreAnomalies(sub, prev) ==
  IF ~prev.defined THEN Threw
  ELSE IF Len(prev.items) < 3
    THEN Check(FALSE, "", "Insufficient data for comparison")
  ELSE IF sub.isNull \/ \E i \in DOMAIN prev.items : prev.items[i].isNull
    THEN Threw
  ELSE LET scored == SelectSeq(prev.items, LAMBDA x : x.verification.present)
           total == SumScores(scored, 1)
           submissionScore == IF sub.verification.present
                                THEN sub.verification.score ELSE 0
       IN Check(/\ Len(scored) > 0
                /\ submissionScore * Len(scored) > total + 30 * Len(scored)
                /\ submissionScore > 80,
                "Score significantly higher than average",
                "Score within normal range")

RecommendationRejectAtHalf(riskScore) ==
  IF riskScore >= 50 THEN "reject"
  ELSE IF riskScore > 25 THEN "review" ELSE "approve"

RecommendationInclusive(riskScore) ==
  IF riskScore > 50 THEN "reject"
  ELSE IF riskScore >= 25 THEN "review" ELSE "approve"

Recommendation(riskScore) ==
  IF riskScore > 50 THEN "reject"
  ELSE IF riskScore > 25 THEN "review" ELSE "approve"

CheckNames == {"duplicateContent", "unusualTiming", "metadataInconsistencies",
               "scoreAnomalies"}

NoChecks == [n \in {} |-> Threw]

NoAssessment == [called |-> FALSE, riskScore |-> 0, fraudChecks |-> NoChecks,
                 recommendation |-> ""]

\* detectFraud without its try / catch: a throw of a check reaches the caller
detectFraudUncaught(sub, prev, clock) ==
  LET fraudChecks ==
        [n \in CheckNames |->
           CASE n = "duplicateContent" -> checkDuplicateContent(sub, prev)
             [] n = "unusualTiming" -> checkUnusualTiming(sub, clock)
             [] n = "metadataInconsistencies" -> checkMetadataConsistency(sub)
             [] n = "scoreAnomalies" -> checkScoreAnomalies(sub, prev)]
      flags == Cardinality({n \in CheckNames : fraudChecks[n].suspicious})
      riskScore == (flags * 100) \div Cardinality(CheckNames)
  IN IF \E n \in CheckNames : fraudChecks[n].threw
       THEN [called |-> TRUE, riskScore |-> 0, fraudChecks |-> NoChecks,
             recommendation |-> "TypeError"]
       ELSE [called |-> TRUE, riskScore |-> riskScore,
             fraudChecks |-> fraudChecks,
             recommendation |-> Recommendation(riskScore)]

\* detectFraud: a throw of any check is caught and answered with the empty
\* assessment.
detectFraud(sub, prev, clock) ==
  LET fraudChecks ==
        [n \in CheckNames |->
           CASE n = "duplicateContent" -> checkDuplicateContent(sub, prev)
             [] n = "unusualTiming" -> checkUnusualTiming(sub, clock)
             [] n = "metadataInconsistencies" -> checkMetadataConsistency(sub)
             [] n = "scoreAnomalies" -> checkScoreAnomalies(sub, prev)]
      flags == Cardinality({n \in CheckNames : fraudChecks[n].suspicious})
      riskScore == (flags * 100) \div Cardinality(CheckNames)
  IN IF \E n \in CheckNames : fraudChecks[n].threw
       THEN [called |-> TRUE, riskScore |-> 0, fraudChecks |-> NoChecks,
             recommendation |-> "approve"]
       ELSE [called |-> TRUE, riskScore |-> riskScore,
             fraudChecks |-> fraudChecks,
             recommendation |-> Recommendation(riskScore)]

----------------------------------------------------------------------------
(* Submission routes: POST /submit, processAIVerification, manual verify *)

NoStoredVerification == [present |-> FALSE, isValid |-> Undef,
                         score |-> Undef, method |-> "none"]

\* The submission object uploaded by POST /submit: it has no verification
\* and no status field (status is only added to completeSubmission).
OriginalSubmission == [verification |-> NoStoredVerification,
                       status |-> "undefined"]

\* completeSubmission, kept by the closure passed to setImmediate
CompleteSubmission == [verification |-> NoStoredVerification,
                       status |-> "pending_verification"]

\* updatedSubmission of processAIVerification
UpdatedSubmission(sub, verification) ==
  [verification |-> [present |-> TRUE, isValid |-> verification.isValid,
                     score |-> verification.score, method |-> "ai"],
   status |-> IF Truthy(verification.isValid) THEN "verified" ELSE "rejected"]

\* updatedData of the manual verify route: the stored object with a
\* verification added, every other field (status included) as it was read
UpdatedData(detailedData, isValid, score) ==
  [verification |-> [present |-> TRUE, isValid |-> Bool(isValid),
                     score |-> Num(score), method |-> "manual"],
   status |-> detailedData.status]

\* filecoinService.uploadUserData: the object becomes retrievable by its hash
uploadUserData(store, data) == store \cup {data}

\* filecoinService.getUserData(proofHash): the object uploaded under the hash
getUserData(store, proofHash) == CHOOSE r \in store : r = proofHash

NoChain == [submitted |-> FALSE, proofHash |-> OriginalSubmission, log |-> <<>>]

\* hederaService.submitChallenge: the record is created with the proof hash
submitChallenge(c, proofHash) ==
  [submitted |-> TRUE, proofHash |-> proofHash, log |-> c.log]

\* hederaService.verifyChallenge(submissionId, isValid, score): the bool
\* argument is encoded by its truthiness
hederaVerifyChallenge(c, by, isValid, score) ==
  [c EXCEPT !.log = Append(@, [by |-> by, isValid |-> Truthy(isValid),
                               score |-> score.v])]

\* body('challengeType').isIn([...]) of POST /submit
ChallengeTypes == {"photo", "quiz", "location", "creative", "skill"}

\* A request accepted by the validators of POST /submit: its challenge type
\* and whether submissionData carries device, timestamp and location.
IntakeRequests == [challengeType : ChallengeTypes, clientMetadata : BOOLEAN]

PhotoRequest == [challengeType |-> "photo", clientMetadata |-> FALSE]

\* submission.metadata as POST /submit builds it: userAgent, ipAddress,
\* fileSize and fileType; nothing of the request reaches device, timestamp
\* or location.
IntakeMetadata(req) ==
  [present |-> TRUE, device |-> Undef, timestamp |-> Undef,
   location |-> Undef]

\* The submission object of POST /submit as the fraud checks read it
IntakeSubmission(req, clock) ==
  [isNull |-> FALSE, proofHash |-> Str(1), timestamp |-> IsoDate(clock),
   metadata |-> IntakeMetadata(req), verification |-> NoScore]

\* challengeData of processAIVerification: title, description, requirements
\* and scoringCriteria only
PipelineChallengeData == [questions |-> "undefined"]

\* buildVerificationPrompt: the quiz strategy maps over
\* challengeData.questions and reads submissionData.answers[i] for each
\* question; the submission object has no answers field.
buildVerificationPrompt(challengeData, challengeType) ==
  IF challengeType = "quiz" /\ challengeData.questions # "empty"
    THEN "TypeError" ELSE "prompt"

\* verifyChallenge with its prompt construction, which runs inside the same
\* try block as the call to the judge
verifyChallengeOfType(challengeData, challengeType, j, clock) ==
  IF buildVerificationPrompt(challengeData, challengeType) = "TypeError"
    THEN [status |-> "error", kind |-> "undefined",
          message |-> <<"AI verification failed: ",
                        "Cannot read properties of undefined">>,
          verdict |-> NoVerdict]
    ELSE verifyChallenge(j, clock)

\* detailedData.verification as determineWinners reads it
EnrichedVerification(v) ==
  IF v.present
    THEN [present |-> TRUE, isValid |-> v.isValid, score |-> v.score.v]
    ELSE NoVerification

\* winnersData of the determine-winners route
WinnersData(result) ==
  [verification |-> NoStoredVerification, status |-> "undefined",
   winners |-> Len(result.winners),
   validSubmissions |-> result.validSubmissions]

NoPipe == [pc |-> "idle", submission |-> CompleteSubmission,
           verification |-> NoVerdict, request |-> PhotoRequest,
           failure |-> "none"]

NoManual == [pc |-> "idle", isValid |-> FALSE, score |-> 0, count |-> 0]

ManualScores == {0, 100}

----------------------------------------------------------------------------
(* Actions *)

\* Time passes between two reads of the clock.
Tick ==
  /\ now < MaxNow
  /\ now' = now + 1
  /\ UNCHANGED <<verifyVars, winnerVars, fraudVars, pipelineVars>>

VerifyChallenge ==
  /\ verifyResult.status = "none"
  /\ verifyResult' = verifyChallenge(judge, now)
  /\ UNCHANGED <<now, judge, validateResult, winnerVars, fraudVars, pipelineVars>>

ValidateAIResponse ==
  /\ validateResult = "none"
  /\ judge.kind = "object"
  /\ validateResult' = validateAIResponse(judge.obj)
  /\ UNCHANGED <<now, judge, verifyResult, winnerVars, fraudVars, pipelineVars>>

DetermineWinners ==
  /\ calls < MaxCalls
  /\ winnersResult' = determineWinners(submissions, maxWinners, now)
  /\ firstCall' = IF calls = 0
                    THEN [input |-> submissions, maxWinners |-> maxWinners,
                          result |-> winnersResult']
                    ELSE firstCall
  /\ calls' = calls + 1
  /\ submissions' = SubmissionsAfterCall(submissions)
  /\ UNCHANGED <<now, verifyVars, fraudVars, pipelineVars, maxWinners>>

\* The caller presents the same submissions in another order for its next
\* call: two neighbours change places.
Reorder ==
  /\ calls = 1
  /\ submissions = firstCall.input
  /\ \E i \in 1..(Len(submissions) - 1) :
       submissions' = [submissions EXCEPT ![i] = submissions[i + 1],
                                          ![i + 1] = submissions[i]]
  /\ UNCHANGED <<now, verifyVars, fraudVars, pipelineVars, maxWinners,
                 winnersResult, firstCall, calls>>

DetectFraud ==
  /\ ~fraudResult.called
  /\ fraudResult' = detectFraud(fraudSubmission, previousSubmissions, now)
  /\ UNCHANGED <<now, verifyVars, winnerVars, pipelineVars, fraudSubmission,
                 previousSubmissions>>

\* POST /submit: upload the submission, record it on-chain, schedule
\* processAIVerification; a throw of either call ends the request with 500.
Submit ==
  /\ pipe.pc = "idle"
  /\ \E outcome \in {"upload_failed", "chain_failed", "ok"} :
       /\ storage' = IF outcome = "upload_failed" THEN storage
                     ELSE uploadUserData(storage, OriginalSubmission)
       /\ chain' = IF outcome = "ok"
                     THEN submitChallenge(chain, OriginalSubmission)
                     ELSE chain
       /\ pipe' = [pipe EXCEPT !.pc = IF outcome = "ok" THEN "scheduled"
                                      ELSE "failed",
                                !.failure = IF outcome = "ok" THEN "none"
                                            ELSE "submit"]
  /\ UNCHANGED <<now, verifyVars, winnerVars, fraudVars, manual>>

\* processAIVerification up to the awaited aiService.verifyChallenge; a throw
\* is caught and logged by the function itself.
ProcessAIVerificationJudge ==
  /\ pipe.pc = "scheduled"
  /\ LET r == verifyChallengeOfType(PipelineChallengeData,
                                    pipe.request.challengeType, judge, now)
     IN pipe' = IF r.status = "ok"
                  THEN [pipe EXCEPT !.pc = "verdict",
                                    !.verification = r.verdict]
                  ELSE [pipe EXCEPT !.pc = "failed", !.failure = "judge"]
  /\ UNCHANGED <<now, verifyVars, winnerVars, fraudVars, storage, chain,
                 manual>>

\* ... the awaited upload of updatedSubmission
ProcessAIVerificationUpload ==
  /\ pipe.pc = "verdict"
  /\ \E ok \in BOOLEAN :
       /\ storage' = IF ok
                       THEN uploadUserData(storage,
                              UpdatedSubmission(pipe.submission,
                                                pipe.verification))
                       ELSE storage
       /\ pipe' = [pipe EXCEPT !.pc = IF ok THEN "uploaded" ELSE "failed",
                                !.failure = IF ok THEN "none" ELSE "storage"]
  /\ UNCHANGED <<now, verifyVars, winnerVars, fraudVars, chain, manual>>

\* ... the awaited on-chain update; a score that is not a number cannot be
\* encoded and the call throws.
ProcessAIVerificationOnChain ==
  /\ pipe.pc = "uploaded"
  /\ \E ok \in BOOLEAN :
       LET done == ok /\ pipe.verification.score.t = "number"
       IN /\ chain' = IF done
                        THEN hederaVerifyChallenge(chain, "ai",
                               pipe.verification.isValid,
                               pipe.verification.score)
                        ELSE chain
          /\ pipe' = [pipe EXCEPT !.pc = IF done THEN "done" ELSE "failed",
                                   !.failure = IF done THEN "none"
                                               ELSE "chain"]
  /\ UNCHANGED <<now, verifyVars, winnerVars, fraudVars, storage, manual>>

\* POST /:submissionId/verify up to the awaited on-chain update
ManualVerifyOnChain ==
  /\ manual.pc = "idle"
  /\ manual.count < MaxManual
  /\ chain.submitted
  /\ \E isValid \in BOOLEAN, score \in ManualScores, ok \in BOOLEAN :
       /\ chain' = IF ok
                     THEN hederaVerifyChallenge(chain, "manual",
                                                Bool(isValid), Num(score))
                     ELSE chain
       /\ manual' = [pc |-> IF ok THEN "chainDone" ELSE "idle",
                     isValid |-> isValid, score |-> score,
                     count |-> manual.count + 1]
  /\ UNCHANGED <<now, verifyVars, winnerVars, fraudVars, storage, pipe>>

\* ... reading the stored object through the on-chain proofHash and
\* uploading updatedData
ManualVerifyStore ==
  /\ manual.pc = "chainDone"
  /\ \E ok \in BOOLEAN :
       storage' = IF ok
                    THEN uploadUserData(storage,
                           UpdatedData(getUserData(storage, chain.proofHash),
                                       manual.isValid, manual.score))
                    ELSE storage
  /\ manual' = [manual EXCEPT !.pc = "idle"]
  /\ UNCHANGED <<now, verifyVars, winnerVars, fraudVars, chain, pipe>>

\* POST /:eventId/:challengeId/determine-winners: the indexed submissions
\* with verified: true, each enriched with the verification of the object
\* stored under its on-chain proofHash, are given to determineWinners and
\* the result is uploaded.
DetermineWinnersRoute ==
  /\ calls = 0
  /\ Len(chain.log) > 0
  /\ chain.log[Len(chain.log)].isValid
  /\ \E k \in 1..FallbackRows :
       LET detailedData == getUserData(storage, chain.proofHash)
           enriched ==
             <<[submissionId |-> 1, submitter |-> 1, timestamp |-> 0,
                verification |-> EnrichedVerification(detailedData.verification)]>>
           result == determineWinners(enriched, k, now)
       IN /\ submissions' = enriched
          /\ maxWinners' = k
          /\ winnersResult' = result
          /\ firstCall' = [input |-> enriched, maxWinners |-> k,
                           result |-> result]
          /\ calls' = calls + 1
          /\ storage' = uploadUserData(storage, WinnersData(result))
  /\ UNCHANGED <<now, verifyVars, fraudVars, chain, pipe, manual>>

\* detectFraud given the submission object that POST /submit built, with no
\* prior submissions
AssessIntakeSubmission ==
  /\ pipe.pc # "idle"
  /\ ~fraudResult.called
  /\ fraudSubmission' = IntakeSubmission(pipe.request, now)
  /\ previousSubmissions' = [defined |-> TRUE, items |-> <<>>]
  /\ fraudResult' = detectFraud(fraudSubmission', previousSubmissions', now)
  /\ UNCHANGED <<now, verifyVars, winnerVars, pipelineVars>>

NoPipelineInput ==
  /\ storage = {}
  /\ chain = NoChain
  /\ pipe = NoPipe
  /\ manual = NoManual

NoFraudInput ==
  /\ fraudSubmission = NullSubmission
  /\ previousSubmissions = NoPriorList
  /\ fraudResult = NoAssessment

NoVerifyInput ==
  /\ judge = [kind |-> "call_failed", obj |-> NoResponse]
  /\ verifyResult = NotCalled
  /\ validateResult = "none"

NoWinnersInput ==
  /\ submissions = <<>>
  /\ maxWinners = 0
  /\ winnersResult = NoResult
  /\ firstCall = NoCall
  /\ calls = 0

InitVerify ==
  /\ now = 0
  /\ judge \in JudgeOutcomes
  /\ verifyResult = NotCalled
  /\ validateResult = "none"
  /\ NoWinnersInput
  /\ NoFraudInput
  /\ NoPipelineInput

NextVerify == Tick \/ VerifyChallenge \/ ValidateAIResponse

SpecVerify == InitVerify /\ [][NextVerify]_vars

InitWinners ==
  /\ now = 0
  /\ submissions \in WinnerInputs
  /\ maxWinners \in 0..MaxWinnersArg
  /\ winnersResult = NoResult
  /\ firstCall = NoCall
  /\ calls = 0
  /\ NoVerifyInput
  /\ NoFraudInput
  /\ NoPipelineInput

NextWinners == Tick \/ DetermineWinners \/ Reorder

SpecWinners == InitWinners /\ [][NextWinners]_vars

InitFraud ==
  /\ now = 0
  /\ fraudSubmission \in FraudSubmissions
  /\ previousSubmissions \in PriorLists
  /\ fraudResult = NoAssessment
  /\ NoVerifyInput
  /\ NoWinnersInput
  /\ NoPipelineInput

NextFraud == DetectFraud

SpecFraud == InitFraud /\ [][NextFraud]_vars

\* determineWinners called with maxWinners above 3 on 4 or more submissions
InitManyWinners ==
  /\ now = 0
  /\ submissions \in ManyWinnerInputs
  /\ maxWinners \in (FallbackRows + 1)..RouteMaxWinners
  /\ winnersResult = NoResult
  /\ firstCall = NoCall
  /\ calls = 0
  /\ NoVerifyInput
  /\ NoFraudInput
  /\ NoPipelineInput

NextManyWinners == Tick \/ DetermineWinners

SpecManyWinners == InitManyWinners /\ [][NextManyWinners]_vars

InitPipeline ==
  /\ now = 0
  /\ judge \in JudgeOutcomes
  /\ verifyResult = NotCalled
  /\ validateResult = "none"
  /\ NoWinnersInput
  /\ NoFraudInput
  /\ NoPipelineInput

NextPipeline ==
  \/ Submit
  \/ ProcessAIVerificationJudge
  \/ ProcessAIVerificationUpload
  \/ ProcessAIVerificationOnChain
  \/ ManualVerifyOnChain
  \/ ManualVerifyStore

SpecPipeline == InitPipeline /\ [][NextPipeline]_vars

\* The judge answers with a verdict that passes validateAIResponse, or the
\* call fails.
IntakeJudgeOutcomes ==
  {j \in JudgeOutcomes :
     \/ j.kind = "call_failed"
     \/ j.kind = "object" /\ validateAIResponse(j.obj) = "ok"}

\* Any accepted request, followed through verification, winner selection
\* and a fraud assessment of the record built from it
InitIntake ==
  /\ now = 0
  /\ judge \in IntakeJudgeOutcomes
  /\ verifyResult = NotCalled
  /\ validateResult = "none"
  /\ NoWinnersInput
  /\ NoFraudInput
  /\ storage = {}
  /\ chain = NoChain
  /\ pipe \in {[NoPipe EXCEPT !.request = r] : r \in IntakeRequests}
  /\ manual = NoManual

NextIntake ==
  \/ NextPipeline
  \/ DetermineWinnersRoute
  \/ AssessIntakeSubmission

SpecIntake == InitIntake /\ [][NextIntake]_vars

\* Both pure functions, each called on the inputs of its own specification
InitPure == InitWinners \/ InitFraud

NextPure == DetermineWinners \/ DetectFraud

SpecPure == InitPure /\ [][NextPure]_vars

----------------------------------------------------------------------------
(* Properties of verifyChallenge (SpecVerify) *)

Clamp(s) == IF s < 0 THEN 0 ELSE IF s > 100 THEN 100 ELSE s

\* C1: for every numeric judge score s the returned Verdict has
\* score = max(0, min(100, s)), hence 0 <= score <= 100.
C1_ScoreClamped ==
  (verifyResult.status # "none" /\ judge.kind = "object"
     /\ judge.obj.score.t = "number")
  => /\ verifyResult.status = "ok"
     /\ verifyResult.verdict.score = Num(Clamp(judge.obj.score.v))
     /\ verifyResult.verdict.score.v \in 0..100

C1_Witness ==
  /\ verifyResult.status = "ok"
  /\ judge.obj.score = Num(150)
  /\ verifyResult.verdict.score = Num(100)

\* A parsed response that breaks the four-field schema of the Verdict
SchemaViolation(r) ==
  \/ \E f \in {"isValid", "score", "reasoning", "confidence"} : r[f] = Undef
  \/ r.isValid.t # "boolean"
  \/ r.score.t # "number"
  \/ r.confidence.t # "number"
  \/ r.confidence.v < 0
  \/ r.confidence.v > ConfidenceOne

\* C2: verifyChallenge fails whenever the parsed judge response is missing a
\* field, has a non-boolean isValid, a non-numeric score or confidence, or a
\* confidence outside [0,1].
C2_SchemaEnforced ==
  (verifyResult.status # "none" /\ judge.kind = "object"
     /\ SchemaViolation(judge.obj))
  => verifyResult.status = "error"

\* C3: a response that is schema-valid except that its score lies outside
\* [0,100] is rejected by no validation step, and verification returns the
\* judge's isValid, reasoning and confidence with the clamped score.
C3_OutOfRangeNeverRejected ==
  (/\ judge.kind = "object"
   /\ judge.obj.score.t = "number"
   /\ judge.obj.score.v \notin 0..100
   /\ ~SchemaViolation(judge.obj))
  => /\ validateResult \in {"none", "ok"}
     /\ verifyResult.status # "none"
          => /\ verifyResult.status = "ok"
             /\ verifyResult.verdict.isValid = judge.obj.isValid
             /\ verifyResult.verdict.reasoning = judge.obj.reasoning
             /\ verifyResult.verdict.confidence = judge.obj.confidence
             /\ verifyResult.verdict.score = Num(Clamp(judge.obj.score.v))

\* C15: an unparseable judge response makes verifyChallenge fail with an
\* error of kind invalid_response, which differs from what a failed remote
\* call raises.
C15_InvalidResponseKind ==
  (verifyResult.status # "none" /\ judge.kind = "unparseable")
  => /\ verifyResult.status = "error"
     /\ verifyResult.kind = "invalid_response"
     /\ verifyResult.kind
          # verifyChallenge([kind |-> "call_failed", obj |-> NoResponse],
                            now).kind

----------------------------------------------------------------------------
(* Properties of determineWinners (SpecWinners) *)

\* The list the latest call was made on
LastInput == IF calls = 1 THEN firstCall.input ELSE submissions

\* The submission record a winner stands for
SubOf(w) == CHOOSE x \in {submissions[i] : i \in DOMAIN submissions} :
              x.submissionId = w.submissionId

HasValidVerdict(sub) ==
  sub.verification.present /\ sub.verification.isValid = Bool(TRUE)

\* Every verdict attached to a submission has a boolean isValid (or none)
VerdictsTyped ==
  \A i \in DOMAIN submissions :
    submissions[i].verification.isValid.t \in {"boolean", "undefined"}

\* C4: a submission without verification, or whose isValid is not the
\* boolean true, is never among the winners, and totalSubmissions is the
\* length of the input list.
C4_OnlyTrueWins ==
  calls > 0
  => /\ \A i \in DOMAIN winnersResult.winners :
          \E j \in DOMAIN submissions :
            /\ submissions[j].submissionId = winnersResult.winners[i].submissionId
            /\ HasValidVerdict(submissions[j])
     /\ winnersResult.totalSubmissions = Len(submissions)

\* C5: winners are ordered by score descending and, on equal scores, by
\* timestamp ascending.
C5_RankOrder ==
  calls > 0
  => \A i, j \in DOMAIN winnersResult.winners :
       i < j =>
         LET a == winnersResult.winners[i]
             b == winnersResult.winners[j]
         IN \/ a.score > b.score
            \/ /\ a.score = b.score
               /\ SubOf(a).timestamp <= SubOf(b).timestamp

C5_Witness ==
  /\ calls > 0
  /\ \E i, j \in DOMAIN winnersResult.winners :
       /\ i < j
       /\ winnersResult.winners[i].score = winnersResult.winners[j].score
       /\ SubOf(winnersResult.winners[i]).timestamp
            < SubOf(winnersResult.winners[j]).timestamp
       /\ \E p, q \in DOMAIN LastInput :
            /\ p < q
            /\ LastInput[q].submissionId = winnersResult.winners[i].submissionId
            /\ LastInput[p].submissionId = winnersResult.winners[j].submissionId

\* C6: two input lists that are permutations of each other give the same
\* submissions at the same ranks.
C6_OrderIndependent ==
  calls >= 2
  => [i \in DOMAIN winnersResult.winners |->
        winnersResult.winners[i].submissionId]
     = [i \in DOMAIN firstCall.result.winners |->
          firstCall.result.winners[i].submissionId]

StrictlyBetter(a, b) ==
  \/ a.verification.score > b.verification.score
  \/ /\ a.verification.score = b.verification.score
     /\ a.timestamp < b.timestamp

\* C7: with maxWinners >= 0 there are exactly min(maxWinners, v) winners, v
\* the number of submissions with a valid verdict, validSubmissions = v, the
\* winners are the best valid submissions and their ranks are 1..n in order.
C7_WinnerCount ==
  (calls > 0 /\ VerdictsTyped)
  => LET v == Cardinality({i \in DOMAIN submissions :
                             HasValidVerdict(submissions[i])})
         w == winnersResult.winners
         ids == {w[i].submissionId : i \in DOMAIN w}
     IN /\ winnersResult.validSubmissions = v
        /\ Len(w) = (IF maxWinners <= v THEN maxWinners ELSE v)
        /\ \A i \in DOMAIN w : w[i].rank = i
        /\ Cardinality(ids) = Len(w)
        /\ \A i \in DOMAIN w : HasValidVerdict(SubOf(w[i]))
        /\ \A i \in DOMAIN w : \A j \in DOMAIN submissions :
             (HasValidVerdict(submissions[j])
                /\ submissions[j].submissionId \notin ids)
             => ~StrictlyBetter(submissions[j], SubOf(w[i]))

C7_Witness ==
  /\ calls > 0
  /\ VerdictsTyped
  /\ maxWinners = 2
  /\ winnersResult.validSubmissions = 3
  /\ winnersResult.totalSubmissions = 3
  /\ Len(winnersResult.winners) = 2
  /\ winnersResult.winners[2].rank = 2

RewardsOf(r) == [i \in DOMAIN r.winners |-> r.winners[i].rewardPercentage]

\* C8: the reward percentages come from the table row of the actual number
\* of winners: 1 -> [100], 2 -> [70, 30], 3 -> [50, 30, 20]; they sum to 100.
C8_RewardByActualCount ==
  calls > 0
  => LET r == RewardsOf(winnersResult)
     IN /\ Len(r) = 1 => r = <<Num(100)>>
        /\ Len(r) = 2 => r = <<Num(70), Num(30)>>
        /\ Len(r) = 3 => r = <<Num(50), Num(30), Num(20)>>
        /\ Len(r) = 1 => r[1].v = 100
        /\ Len(r) = 2 => r[1].v + r[2].v = 100
        /\ Len(r) = 3 => r[1].v + r[2].v + r[3].v = 100

C8_Witness ==
  /\ calls > 0
  /\ maxWinners = 3
  /\ winnersResult.validSubmissions = 2
  /\ RewardsOf(winnersResult) = <<Num(70), Num(30)>>

C14_NoValidNoWinners ==
  (/\ calls > 0
   /\ VerdictsTyped
   /\ \A i \in DOMAIN submissions : ~HasValidVerdict(submissions[i]))
  => /\ winnersResult.winners = <<>>
     /\ winnersResult.validSubmissions = 0
     /\ winnersResult.totalSubmissions = Len(submissions)

C14_Witness ==
  /\ calls > 0
  /\ maxWinners = 3
  /\ Len(submissions) = 2
  /\ \A i \in DOMAIN submissions :
       /\ submissions[i].verification.present
       /\ submissions[i].verification.isValid = Bool(FALSE)
  /\ winnersResult.winners = <<>>
  /\ winnersResult.totalSubmissions = 2

----------------------------------------------------------------------------
(* Properties of detectFraud (SpecFraud) *)

MetadataComplete(sub) ==
  /\ sub.metadata.present
  /\ Truthy(sub.metadata.device)
  /\ Truthy(sub.metadata.timestamp)
  /\ Truthy(sub.metadata.location)

\* A submission with complete metadata and a non-future timestamp whose
\* proofHash is that of a prior submission, assessed with fewer than 3 priors
DuplicateCase ==
  /\ fraudResult.called
  /\ MetadataComplete(fraudSubmission)
  /\ fraudSubmission.proofHash.t = "string"
  /\ fraudSubmission.timestamp.valid
  /\ fraudSubmission.timestamp.ms <= now
  /\ previousSubmissions.defined
  /\ Len(previousSubmissions.items) < 3
  /\ \A i \in DOMAIN previousSubmissions.items :
       ~previousSubmissions.items[i].isNull
  /\ \E i \in DOMAIN previousSubmissions.items :
       previousSubmissions.items[i].proofHash = fraudSubmission.proofHash

OnlyDuplicateSuspicious ==
  /\ DOMAIN fraudResult.fraudChecks = CheckNames
  /\ {n \in CheckNames : fraudResult.fraudChecks[n].suspicious}
       = {"duplicateContent"}
  /\ fraudResult.riskScore = 25

\* C10 as stated: the duplicate case yields exactly one suspicious check
\* (duplicateContent), riskScore = 25 and recommendation = review.
C10_DuplicateReview ==
  DuplicateCase
  => (OnlyDuplicateSuspicious /\ fraudResult.recommendation = "review")

\* C10 as amended: the duplicate case yields exactly one suspicious check
\* (duplicateContent), riskScore = 25 and recommendation = approve.
C10_DuplicateApprove ==
  DuplicateCase
  => (OnlyDuplicateSuspicious /\ fraudResult.recommendation = "approve")

C10_Witness ==
  /\ DuplicateCase
  /\ fraudSubmission.proofHash = Str(1)
  /\ Len(previousSubmissions.items) = 2
  /\ fraudResult.fraudChecks["duplicateContent"].suspicious
  /\ fraudResult.riskScore = 25

\* The suspicious checks an assessment reports
Flagged(a) == {n \in DOMAIN a.fraudChecks : a.fraudChecks[n].suspicious}

\* C11: riskScore is 25 times the number of suspicious checks; the
\* recommendation is reject above 50, review above 25 up to 50, approve
\* otherwise.
C11_RiskScoreAndRecommendation ==
  fraudResult.called
  => /\ fraudResult.riskScore = 25 * Cardinality(Flagged(fraudResult))
     /\ fraudResult.riskScore > 50 => fraudResult.recommendation = "reject"
     /\ (fraudResult.riskScore > 25 /\ fraudResult.riskScore <= 50)
          => fraudResult.recommendation = "review"
     /\ fraudResult.riskScore <= 25 => fraudResult.recommendation = "approve"

C11_Witness ==
  /\ fraudResult.called
  /\ Cardinality(Flagged(fraudResult)) = 2
  /\ fraudResult.riskScore = 50
  /\ fraudResult.recommendation = "review"

\* A submission record without metadata, with a proofHash no prior shares and
\* a non-future timestamp, assessed with fewer than 3 prior submissions
NoMetadataCase ==
  /\ fraudResult.called
  /\ ~fraudSubmission.isNull
  /\ ~fraudSubmission.metadata.present
  /\ fraudSubmission.proofHash.t = "string"
  /\ fraudSubmission.timestamp.valid
  /\ fraudSubmission.timestamp.ms <= now
  /\ previousSubmissions.defined
  /\ Len(previousSubmissions.items) < 3
  /\ \A i \in DOMAIN previousSubmissions.items :
       /\ ~previousSubmissions.items[i].isNull
       /\ previousSubmissions.items[i].proofHash # fraudSubmission.proofHash

\* C12 as stated: the only suspicious check is the one named
\* metadataCompleteness, riskScore = 25 and recommendation = review.
C12_MetadataCompletenessReview ==
  NoMetadataCase
  => /\ Flagged(fraudResult) = {"metadataCompleteness"}
     /\ fraudResult.riskScore = 25
     /\ fraudResult.recommendation = "review"

\* C12 as amended: the only suspicious check is the metadata check, reported
\* under the name metadataInconsistencies, riskScore = 25 and
\* recommendation = approve.
C12_MetadataInconsistenciesApprove ==
  NoMetadataCase
  => /\ Flagged(fraudResult) = {"metadataInconsistencies"}
     /\ fraudResult.riskScore = 25
     /\ fraudResult.recommendation = "approve"

C12_Witness ==
  /\ NoMetadataCase
  /\ Len(previousSubmissions.items) = 2
  /\ fraudResult.fraudChecks["metadataInconsistencies"].suspicious

\* C13: whatever the submission and the prior list (missing fields, null
\* entries, no list at all), detectFraud returns an assessment with riskScore
\* in 0..100 and a recommendation among approve, review, reject.
C13_NeverRaises ==
  fraudResult.called
  => /\ fraudResult.riskScore \in 0..100
     /\ fraudResult.recommendation \in {"approve", "review", "reject"}

C13_Witness ==
  /\ fraudResult.called
  /\ ~fraudSubmission.isNull
  /\ ~previousSubmissions.defined
  /\ fraudResult.recommendation = "approve"

----------------------------------------------------------------------------
(* Frame of the two pure functions (SpecPure) *)

----------------------------------------------------------------------------
(* Properties of the verification pipeline (SpecPipeline) *)

StoredVerdicts == {r \in storage : r.verification.present}

\* C17: when verification fails (judge call failed, response unparseable or
\* violating the schema), no rejected status is recorded for the submission,
\* neither in storage nor on-chain.
C17_NoRejectOnFailure ==
  (judge.kind # "object" \/ SchemaViolation(judge.obj))
  => /\ \A r \in storage : r.status # "rejected"
     /\ \A i \in DOMAIN chain.log :
          chain.log[i].by = "ai" => chain.log[i].isValid

\* C18: every persisted record that carries a verification has status
\* verified when isValid is true and rejected when it is false.
C18_StatusFollowsVerdict ==
  \A r \in StoredVerdicts :
    /\ r.verification.isValid = Bool(TRUE) => r.status = "verified"
    /\ r.verification.isValid = Bool(FALSE) => r.status = "rejected"

\* C19: the submission receives exactly one Verdict: at most one
\* verification is recorded in storage and at most one on-chain, from one
\* source.
C19_ExactlyOneVerdict ==
  /\ Cardinality(StoredVerdicts) <= 1
  /\ Len(chain.log) <= 1
  /\ Cardinality({r.verification.method : r \in StoredVerdicts}
                 \cup {chain.log[i].by : i \in DOMAIN chain.log}) <= 1

\* C20: once no verification is in progress (finished or failed at any
\* step), the stored copy and the on-chain record agree on whether a
\* verification has been applied.
C20_NoPartialState ==
  (pipe.pc \notin {"verdict", "uploaded"} /\ manual.pc = "idle") =>
  \A m \in {"ai", "manual"} :
    (\E r \in StoredVerdicts : r.verification.method = m)
    <=> (\E i \in DOMAIN chain.log : chain.log[i].by = m)

----------------------------------------------------------------------------
(* Properties of the individual fraud checks (SpecFraud) *)

ChecksReported == fraudResult.called /\ DOMAIN fraudResult.fraudChecks = CheckNames

\* Positions of the prior submissions that carry a Verdict
PriorsWithVerdict ==
  {i \in DOMAIN previousSubmissions.items :
     /\ ~previousSubmissions.items[i].isNull
     /\ previousSubmissions.items[i].verification.present}

PriorScore(i) == previousSubmissions.items[i].verification.score

RECURSIVE SumOver(_)
SumOver(S) ==
  IF S = {} THEN 0
  ELSE LET i == CHOOSE x \in S : TRUE IN PriorScore(i) + SumOver(S \ {i})

CurrentScore ==
  IF fraudSubmission.verification.present
    THEN fraudSubmission.verification.score ELSE 0

\* C21: with fewer than 3 prior submissions carrying a Verdict, whatever the
\* number of priors, the score-anomaly check reports not suspicious.
C21_SkippedBelowThreeVerdicts ==
  (ChecksReported /\ Cardinality(PriorsWithVerdict) < 3)
  => ~fraudResult.fraudChecks["scoreAnomalies"].suspicious

\* C22: when at least 3 priors carry a Verdict, the score-anomaly check is
\* suspicious exactly when the current score exceeds the mean of the prior
\* scores by more than 30 and is greater than 80.
C22_ScoreAnomalyRule ==
  (ChecksReported /\ Cardinality(PriorsWithVerdict) >= 3)
  => LET n == Cardinality(PriorsWithVerdict)
         exceeds == (CurrentScore - 30) * n > SumOver(PriorsWithVerdict)
     IN fraudResult.fraudChecks["scoreAnomalies"].suspicious
        <=> (exceeds /\ CurrentScore > 80)

\* The current score is exactly the mean of three prior scores plus 30 and
\* above 80, and the check was evaluated and did not flag it.
C22_Witness ==
  /\ ChecksReported
  /\ Cardinality(PriorsWithVerdict) = 3
  /\ CurrentScore > 80
  /\ (CurrentScore - 30) * 3 = SumOver(PriorsWithVerdict)
  /\ ~fraudResult.fraudChecks["scoreAnomalies"].suspicious

\* C23: when previousSubmissions is absent or holds an entry with no data,
\* detectFraud still reports the timing and metadata checks with their true
\* outcome and counts them in riskScore.
C23_MissingPriorsDegradeOneCheck ==
  (/\ fraudResult.called
   /\ ~fraudSubmission.isNull
   /\ \/ ~previousSubmissions.defined
      \/ \E i \in DOMAIN previousSubmissions.items :
           previousSubmissions.items[i].isNull)
  => /\ {"unusualTiming", "metadataInconsistencies"}
          \subseteq DOMAIN fraudResult.fraudChecks
     /\ fraudResult.fraudChecks["metadataInconsistencies"].suspicious
          = ~MetadataComplete(fraudSubmission)
     /\ fraudResult.riskScore >=
          (IF MetadataComplete(fraudSubmission) THEN 0 ELSE 25)

\* C25: the unusual-timing check is suspicious exactly when the submission
\* timestamp is more than 5 minutes later than the clock.
C25_FutureTimestampOnly ==
  ChecksReported
  => (fraudResult.fraudChecks["unusualTiming"].suspicious
      <=> (/\ fraudSubmission.timestamp.valid
           /\ fraudSubmission.timestamp.ms - now > FiveMinutes))

\* A timestamp 10 minutes in the past was assessed and not flagged.
C25_Witness ==
  /\ ChecksReported
  /\ fraudSubmission.timestamp.valid
  /\ now - fraudSubmission.timestamp.ms > FiveMinutes
  /\ ~fraudResult.fraudChecks["unusualTiming"].suspicious

MetadataFields == {"device", "timestamp", "location"}

\* C26: the metadata check is suspicious exactly when the metadata is absent
\* or lacks at least one of device, timestamp, location.
C26_FlaggedIffFieldMissing ==
  ChecksReported
  => (fraudResult.fraudChecks["metadataInconsistencies"].suspicious
      <=> (\/ ~fraudSubmission.metadata.present
           \/ \E f \in MetadataFields : fraudSubmission.metadata[f] = Undef))

\* C26 amended: ... or at least one of the three is missing or holds an
\* empty (falsy) value.
C26_FlaggedIffFieldMissingOrEmpty ==
  ChecksReported
  => (fraudResult.fraudChecks["metadataInconsistencies"].suspicious
      <=> (\/ ~fraudSubmission.metadata.present
           \/ \E f \in MetadataFields :
                fraudSubmission.metadata[f] \in {Undef, Str(0)}))

\* A submission whose metadata has only location missing was flagged.
C26_Witness ==
  /\ ChecksReported
  /\ fraudSubmission.metadata.present
  /\ fraudSubmission.metadata.device = Str(1)
  /\ fraudSubmission.metadata.timestamp = Str(1)
  /\ fraudSubmission.metadata.location = Undef
  /\ fraudResult.fraudChecks["metadataInconsistencies"].suspicious

\* C29: a submission that has no proofHash is never reported as a duplicate.
C29_NoHashNoDuplicate ==
  (ChecksReported /\ fraudSubmission.proofHash = Undef)
  => ~fraudResult.fraudChecks["duplicateContent"].suspicious

----------------------------------------------------------------------------
(* Reward percentages beyond the table (SpecManyWinners) *)

\* C24: when more than 3 winners are selected, ranks 1 to 3 receive 50, 30
\* and 20 and every winner at rank 4 or beyond has no defined
\* rewardPercentage.
C24_FallbackTable ==
  (calls > 0 /\ Len(winnersResult.winners) > 3)
  => /\ RewardsOf(winnersResult)[1] = Num(50)
     /\ RewardsOf(winnersResult)[2] = Num(30)
     /\ RewardsOf(winnersResult)[3] = Num(20)
     /\ \A i \in 4..Len(winnersResult.winners) :
          RewardsOf(winnersResult)[i] = Undef

C24_Witness ==
  /\ calls > 0
  /\ maxWinners > 3
  /\ Len(winnersResult.winners) = 4
  /\ winnersResult.winners[4].rewardPercentage = Undef

----------------------------------------------------------------------------
(* Properties of the intake flow (SpecIntake) *)

\* C27: once the pipeline has completed with a valid verdict, the
\* determine-winners route counts the submission in validSubmissions.
C27_VerdictVisibleToWinners ==
  (/\ calls > 0
   /\ manual.count = 0
   /\ pipe.pc = "done"
   /\ pipe.verification.isValid = Bool(TRUE))
  => winnersResult.validSubmissions = 1

LeftPending == \E r \in storage : r.status \in {"verified", "rejected"}

\* C28: for every challenge type, when the judge answers with a well-formed
\* verdict, the verification of an accepted submission ends with the
\* submission verified or rejected unless a storage or on-chain call failed:
\* it never ends in the judging step, where the prompt is built.
C28_EndsVerifiedOrRejected ==
  (judge.kind = "object" /\ pipe.pc \in {"done", "failed"})
  => (LeftPending \/ pipe.failure \in {"submit", "storage", "chain"})

\* C30: a request that supplies device, timestamp and location yields a
\* submission record that passes the metadata check.
C30_IntakeRecordCanPass ==
  (fraudResult.called /\ pipe.request.clientMetadata)
  => /\ DOMAIN fraudResult.fraudChecks = CheckNames
     /\ ~fraudResult.fraudChecks["metadataInconsistencies"].suspicious

====
